---------------------------- MODULE Spec2Model ----------------------------
(***************************************************************************)
(* Model of the electric-vehicle ETL: the driver (main.py), the loader     *)
(* (electric_vehicle_data_loader.py) and the reporter                      *)
(* (electric_vehicle_analytics.py).                                        *)
(*                                                                         *)
(* Text is a sequence of one-character strings, so that parsing and        *)
(* formatting are computed and not assumed.  A Python value is a record    *)
(* [t, s, n]: None, a str (s) or an int (n).                               *)
(***************************************************************************)
EXTENDS Integers, Sequences, FiniteSets, TLC

VARIABLES
    pc,          \* position of the driver in main() / run() / load_data()
    runs,        \* number of driver runs started against the persisted state
    csv_exists,  \* os.path.isfile(csv_path)
    csv_lines,   \* the physical lines of the CSV after its header line
    batch_size,  \* self.batch_size
    db_dir,      \* the db/ directory exists
    conn_open,   \* duckdb.connect() has returned a connection (file opened)
    table_exists,\* the electric_vehicles table exists in the database
    table,       \* committed rows of electric_vehicles, in insertion order
    in_txn,      \* a transaction is open on the connection
    txn_rows,    \* rows inserted by the open transaction, not yet committed
    table0,      \* committed rows when load_data issued BEGIN TRANSACTION
    reader_pos,  \* number of CSV records the DictReader has yielded
    batch,       \* the batch built by the current loop iteration
    caught,      \* exception bound in load_data's except block
    exc,         \* exception that propagated to the driver ("none" if none)
    calls,       \* database calls issued in this run, in order
    steps,       \* driver-level steps entered in this run, in order
    out_dir,     \* the output directory exists
    out_files,   \* files under the output directory: [dir, name, content]
    written,     \* [dir, name] of the files written in this run
    year_dtype,  \* dtype of the Model_Year column of the last year DataFrame
    conv_col,    \* _convert_value: argument col
    conv_val,    \* _convert_value: argument val
    conv_out,    \* _convert_value: returned value
    conv_done    \* _convert_value has returned

vars == <<pc, runs, csv_exists, csv_lines, batch_size, db_dir, conn_open,
          table_exists, table, in_txn, txn_rows, table0, reader_pos, batch,
          caught, exc, calls, steps, out_dir, out_files, written, year_dtype,
          conv_col, conv_val, conv_out, conv_done>>

---------------------------------------------------------------------------
(* Bounds of the model *)

\* longest raw text given to _convert_value
MaxLen == 3
\* most physical lines after the header in the CSV file
MaxLines == 2
\* most driver runs against the same persisted database and output directory
MaxRuns == 2
\* most rows of a table handed directly to the reporter
MaxTable == 3

---------------------------------------------------------------------------
(* Python values *)

None == [t |-> "none", s |-> <<>>, n |-> 0]
Str(s) == [t |-> "str", s |-> s, n |-> 0]
IntV(n) == [t |-> "int", s |-> <<>>, n |-> n]

Range(f) == {f[i] : i \in DOMAIN f}
Last(sq) == sq[Len(sq)]
IsPrefix(p, q) == Len(p) <= Len(q) /\ SubSeq(q, 1, Len(p)) = p

RECURSIVE SeqsUpTo(_, _)
SeqsUpTo(S, n) ==
    IF n = 0 THEN {<<>>}
    ELSE LET shorter == SeqsUpTo(S, n - 1)
         IN  shorter \cup {Append(q, x) : q \in {r \in shorter : Len(r) = n - 1}, x \in S}

---------------------------------------------------------------------------
(* int(str): surrounding whitespace is stripped, one optional sign, then   *)
(* decimal digits with single underscores allowed between digits.          *)

Digits == <<"0", "1", "2", "3", "4", "5", "6", "7", "8", "9">>
IsDigit(c) == c \in Range(Digits)
DigitVal(c) == (CHOOSE i \in DOMAIN Digits : Digits[i] = c) - 1
IsSpace(c) == c = " "

RECURSIVE LStrip(_)
LStrip(s) == IF s # <<>> /\ IsSpace(Head(s)) THEN LStrip(Tail(s)) ELSE s

RECURSIVE RStrip(_)
RStrip(s) ==
    IF s # <<>> /\ IsSpace(Last(s)) THEN RStrip(SubSeq(s, 1, Len(s) - 1)) ELSE s

Strip(s) == RStrip(LStrip(s))

HasSign(s) == s # <<>> /\ Head(s) \in {"+", "-"}
Unsigned(s) == IF HasSign(s) THEN Tail(s) ELSE s

\* the digit part of an int literal: digits, single underscores between digits
IsDigitPart(d) ==
    /\ d # <<>>
    /\ \A i \in DOMAIN d : IsDigit(d[i]) \/ d[i] = "_"
    /\ IsDigit(d[1]) /\ IsDigit(Last(d))
    /\ \A i \in 1..(Len(d) - 1) : ~(d[i] = "_" /\ d[i + 1] = "_")

RECURSIVE DigitPartVal(_)
DigitPartVal(d) ==
    IF d = <<>> THEN 0
    ELSE IF Last(d) = "_" THEN DigitPartVal(SubSeq(d, 1, Len(d) - 1))
    ELSE 10 * DigitPartVal(SubSeq(d, 1, Len(d) - 1)) + DigitVal(Last(d))

\* int(s) does not raise ValueError
PyIntOk(s) == IsDigitPart(Unsigned(Strip(s)))

\* the value int(s) returns when it does not raise
PyInt(s) ==
    LET t == Strip(s)
    IN  IF HasSign(t) /\ Head(t) = "-" THEN 0 - DigitPartVal(Tail(t))
        ELSE DigitPartVal(Unsigned(t))

---------------------------------------------------------------------------
(* The loader's column mapping and _convert_value *)

\* CSV_TO_DB_COLUMNS, as the pairs <<CSV header, table column>> in dict order
CSV_TO_DB_COLUMNS ==
    << <<"VIN (1-10)", "VIN">>,
       <<"County", "County">>,
       <<"City", "City">>,
       <<"State", "State">>,
       <<"Postal Code", "Postal_Code">>,
       <<"Model Year", "Model_Year">>,
       <<"Make", "Make">>,
       <<"Model", "Model">>,
       <<"Electric Vehicle Type", "Electric_Vehicle_Type">>,
       <<"Clean Alternative Fuel Vehicle (CAFV) Eligibility", "CAFV_Eligibility">>,
       <<"Electric Range", "Electric_Range">>,
       <<"Base MSRP", "Base_MSRP">>,
       <<"Legislative District", "Legislative_District">>,
       <<"DOL Vehicle ID", "DOL_Vehicle_ID">>,
       <<"Vehicle Location", "Vehicle_Location">>,
       <<"Electric Utility", "Electric_Utility">>,
       <<"2020 Census Tract", "Census_Tract">> >>

CsvHeaders == {CSV_TO_DB_COLUMNS[i][1] : i \in DOMAIN CSV_TO_DB_COLUMNS}
db_columns == [i \in DOMAIN CSV_TO_DB_COLUMNS |-> CSV_TO_DB_COLUMNS[i][2]]
DbColumns == Range(db_columns)

\* the keys of the converters dict
converters == {"Model_Year", "Electric_Range", "Base_MSRP", "DOL_Vehicle_ID"}

\* "not val": None and the empty string are falsy
Falsy(val) == val.t = "none" \/ (val.t = "str" /\ val.s = <<>>)

\* a plausible slip: the falsy test is applied to the converted number
convert_value_zero_is_null(col, val) ==
    IF Falsy(val) THEN None
    ELSE IF col \in converters
         THEN IF PyIntOk(val.s) /\ PyInt(val.s) # 0 THEN IntV(PyInt(val.s)) ELSE None
         ELSE val

convert_value(col, val) ==
    IF Falsy(val) THEN None
    ELSE IF col \in converters
         THEN IF PyIntOk(val.s) THEN IntV(PyInt(val.s)) ELSE None
         ELSE val



---------------------------------------------------------------------------
(* The CSV file.  A raw row maps each CSV header to the text of its field, *)
(* or to None where the line has fewer fields than the header              *)
(* (DictReader's restval).                                                 *)

RawRow(city, postal, year, make, model, msrp, district, tract) ==
    [h \in CsvHeaders |->
        CASE h = "City" -> city
          [] h = "Postal Code" -> postal
          [] h = "Model Year" -> year
          [] h = "Make" -> make
          [] h = "Model" -> model
          [] h = "Base MSRP" -> msrp
          [] h = "Legislative District" -> district
          [] h = "2020 Census Tract" -> tract
          [] h = "VIN (1-10)" -> Str(<<"5", "Y", "J">>)
          [] h = "State" -> Str(<<"W", "A">>)
          [] h = "Electric Range" -> Str(<<"2", "2">>)
          [] h = "DOL Vehicle ID" -> Str(<<"1", "2", "7">>)
          [] OTHER -> Str(<<"x">>)]

\* the data lines a CSV file of the model is made of
SampleRows ==
    << RawRow(Str(<<"Y">>), Str(<<"9", "8">>), Str(<<"2", "0">>), Str(<<"T">>),
              Str(<<"3">>), Str(<<"0">>), Str(<<"1", "4">>), Str(<<"5", "3">>)),
       RawRow(Str(<<"E">>), Str(<<"9", "8">>), Str(<<"2", "1">>), Str(<<"V">>),
              Str(<<"S">>), Str(<<"0">>), Str(<<>>), Str(<<"4", "1">>)),
       RawRow(Str(<<"Y">>), Str(<<>>), Str(<<"n", "a">>), Str(<<"T">>),
              Str(<<"3">>), Str(<<>>), Str(<<"1", "4">>), None) >>

\* a physical line after the header: 0 is an empty line, k > 0 is SampleRows[k]
BlankLine == 0
LineCodes == {BlankLine} \cup DOMAIN SampleRows

\* csv.DictReader skips the lines that parse to no field at all
RECURSIVE Records(_)
Records(lines) ==
    IF lines = <<>> THEN <<>>
    ELSE IF Head(lines) = BlankLine THEN Records(Tail(lines))
    ELSE <<SampleRows[Head(lines)]>> \o Records(Tail(lines))

\* one element of the batch: the converted fields of a row, in column order
ConvertRow(row) ==
    [i \in DOMAIN CSV_TO_DB_COLUMNS |->
        convert_value(CSV_TO_DB_COLUMNS[i][2], row[CSV_TO_DB_COLUMNS[i][1]])]

\* INSERT INTO electric_vehicles (columns) VALUES (?, ...): the stored row
Stored(params) ==
    [c \in DbColumns |-> params[CHOOSE i \in DOMAIN db_columns : db_columns[i] = c]]

\* a slip: the comprehension runs over the reader itself, without islice
NextBatch_unbounded(records, pos, size) ==
    [k \in 1..(Len(records) - pos) |-> ConvertRow(records[pos + k])]

\* islice(reader, batch_size) on a reader that has yielded pos records
NextBatch(records, pos, size) ==
    LET hi == IF pos + size < Len(records) THEN pos + size ELSE Len(records)
    IN  [k \in 1..(hi - pos) |-> ConvertRow(records[pos + k])]

\* the rows one executemany call inserts
InsertedRows(b) == [k \in DOMAIN b |-> Stored(b[k])]

\* every record of the file as the table stores it
FileRows(lines) == InsertedRows(NextBatch(Records(lines), 0, Len(lines)))



---------------------------------------------------------------------------
(* The driver and the loader.  A database call or a file operation may     *)
(* raise for reasons outside the program (DBError, OSError, CsvError).     *)

convVars == <<conv_col, conv_val, conv_out, conv_done>>
fileVars == <<csv_exists, csv_lines, batch_size>>
dbVars == <<table_exists, table, in_txn, txn_rows>>
loadVars == <<table0, reader_pos, batch, caught>>
outVars == <<out_dir, out_files, written, year_dtype>>

\* a slip: the driver logs the exception and goes on to the reporter
Raise_logged(e) == pc' = "analytics_init" /\ exc' = e

\* an exception leaves the function and reaches main(), which handles nothing
Raise(e) == pc' = "failed" /\ exc' = e

\* os.path.isfile(self.csv_path) is false
csv_path_missing_never(exists) == FALSE

csv_path_missing(exists) == ~exists

\* main(): os.makedirs(db) and duckdb.connect(), before the loader is built
main_connect ==
    /\ pc = "main"
    /\ db_dir' = TRUE
    /\ \/ conn_open' = TRUE /\ pc' = "construct" /\ UNCHANGED exc
       \/ UNCHANGED conn_open /\ Raise("DBError")
    /\ UNCHANGED <<runs, fileVars, dbVars, loadVars, calls, steps, outVars, convVars>>

\* ElectricVehicleDataLoader.__init__ and _validate_csv_path
loader_init ==
    /\ pc = "construct"
    /\ IF csv_path_missing(csv_exists)
       THEN Raise("FileNotFoundError")
       ELSE pc' = "create_table" /\ UNCHANGED exc
    /\ UNCHANGED <<runs, fileVars, db_dir, conn_open, dbVars, loadVars, calls, steps,
                   outVars, convVars>>

\* create_table: CREATE TABLE IF NOT EXISTS
create_table ==
    /\ pc = "create_table"
    /\ steps' = Append(steps, "create_table")
    /\ calls' = Append(calls, "CREATE TABLE IF NOT EXISTS")
    /\ \/ table_exists' = TRUE /\ pc' = "load_begin" /\ UNCHANGED exc
       \/ UNCHANGED table_exists /\ Raise("DBError")
    /\ UNCHANGED <<runs, fileVars, db_dir, conn_open, table, in_txn, txn_rows, loadVars,
                   outVars, convVars>>

\* load_data: BEGIN TRANSACTION, issued before the try block
load_begin ==
    /\ pc = "load_begin"
    /\ steps' = Append(steps, "load_data")
    /\ calls' = Append(calls, "BEGIN TRANSACTION")
    /\ \/ /\ in_txn' = TRUE /\ txn_rows' = <<>> /\ table0' = table
          /\ pc' = "load_open" /\ UNCHANGED exc
       \/ UNCHANGED <<in_txn, txn_rows, table0>> /\ Raise("DBError")
    /\ UNCHANGED <<runs, fileVars, db_dir, conn_open, table_exists, table, reader_pos,
                   batch, caught, outVars, convVars>>

\* load_data: open(csv_path) and csv.DictReader(csvfile)
load_open ==
    /\ pc = "load_open"
    /\ \/ /\ csv_exists
          /\ reader_pos' = 0 /\ pc' = "load_batch" /\ UNCHANGED caught
       \/ /\ caught' = IF csv_exists THEN "OSError" ELSE "FileNotFoundError"
          /\ pc' = "load_rollback" /\ UNCHANGED reader_pos
    /\ UNCHANGED <<runs, fileVars, db_dir, conn_open, dbVars, table0, batch, exc, calls,
                   steps, outVars, convVars>>

\* load_data: one evaluation of the batch comprehension and of "if not batch"
load_batch ==
    /\ pc = "load_batch"
    /\ \/ /\ batch_size < 0   \* islice() rejects a negative stop
          /\ caught' = "ValueError" /\ pc' = "load_rollback"
          /\ UNCHANGED <<batch, reader_pos>>
       \/ /\ batch_size >= 0
          /\ \/ LET b == NextBatch(Records(csv_lines), reader_pos, batch_size)
                IN  /\ batch' = b
                    /\ reader_pos' = reader_pos + Len(b)
                    /\ pc' = IF b = <<>> THEN "load_commit" ELSE "load_exec"
                    /\ UNCHANGED caught
             \/ /\ reader_pos < Len(Records(csv_lines))   \* the reader fails on a line
                /\ caught' = "CsvError" /\ pc' = "load_rollback"
                /\ UNCHANGED <<batch, reader_pos>>
    /\ UNCHANGED <<runs, fileVars, db_dir, conn_open, dbVars, table0, exc, calls, steps,
                   outVars, convVars>>

\* load_data: executemany(insert_query, batch)
load_exec ==
    /\ pc = "load_exec"
    /\ calls' = Append(calls, "INSERT")
    /\ \/ /\ txn_rows' = txn_rows \o InsertedRows(batch)
          /\ pc' = "load_batch" /\ UNCHANGED caught
       \/ /\ caught' = "DBError" /\ pc' = "load_rollback" /\ UNCHANGED txn_rows
    /\ UNCHANGED <<runs, fileVars, db_dir, conn_open, table_exists, table, in_txn, table0,
                   reader_pos, batch, exc, steps, outVars, convVars>>

\* load_data: COMMIT
load_commit ==
    /\ pc = "load_commit"
    /\ calls' = Append(calls, "COMMIT")
    /\ \/ /\ table' = table \o txn_rows /\ txn_rows' = <<>> /\ in_txn' = FALSE
          /\ pc' = "validate" /\ UNCHANGED caught
       \/ /\ caught' = "DBError" /\ pc' = "load_rollback"
          /\ UNCHANGED <<table, txn_rows, in_txn>>
    /\ UNCHANGED <<runs, fileVars, db_dir, conn_open, table_exists, table0, reader_pos,
                   batch, exc, steps, outVars, convVars>>

\* load_data: the except block, ROLLBACK and a bare raise.  ROLLBACK itself is
\* taken to succeed; "except Exception" is not entered for a BaseException
\* such as KeyboardInterrupt, which is not modelled.
load_rollback ==
    /\ pc = "load_rollback"
    /\ calls' = Append(calls, "ROLLBACK")
    /\ txn_rows' = <<>> /\ in_txn' = FALSE
    /\ Raise(caught)
    /\ UNCHANGED <<runs, fileVars, db_dir, conn_open, table_exists, table, loadVars,
                   steps, outVars, convVars>>

\* "sum(1 for _ in csv_file) - 1" on a file of the header and the given lines
csv_row_count_with_header(lines) == 1 + Len(lines)

csv_row_count(lines) == (1 + Len(lines)) - 1

\* SELECT COUNT(*) FROM electric_vehicles, on the loader's own connection
db_row_count == Len(table) + Len(txn_rows)

\* validate_data_load
validate_data_load ==
    /\ pc = "validate"
    /\ steps' = Append(steps, "validate_data_load")
    /\ \/ /\ Raise(IF csv_exists THEN "OSError" ELSE "FileNotFoundError")   \* open()
          /\ UNCHANGED calls
       \/ /\ csv_exists
          /\ calls' = Append(calls, "SELECT COUNT")
          /\ \/ Raise("DBError")
             \/ IF db_row_count # csv_row_count(csv_lines)
                THEN Raise("AssertionError")
                ELSE pc' = "analytics_init" /\ UNCHANGED exc
    /\ UNCHANGED <<runs, fileVars, db_dir, conn_open, dbVars, loadVars, outVars, convVars>>



---------------------------------------------------------------------------
(* The reporter.  A result set is a sequence of rows, a row a tuple of     *)
(* values in SELECT order.                                                 *)

RECURSIVE Perms(_)
Perms(S) ==
    IF S = {} THEN {<<>>}
    ELSE UNION {{<<x>> \o q : q \in Perms(S \ {x})} : x \in S}

\* COUNT(*) of the rows of t whose columns cols hold the values key
GroupCount(t, cols, key) ==
    Cardinality({i \in DOMAIN t : \A j \in DOMAIN cols : t[i][cols[j]] = key[j]})

\* SELECT cols, COUNT(*) FROM t GROUP BY cols: NULL keys form a group too
GroupBy(t, cols) ==
    LET keys == {[j \in DOMAIN cols |-> t[i][cols[j]]] : i \in DOMAIN t}
    IN  {Append(k, IntV(GroupCount(t, cols, k))) : k \in keys}

\* ORDER BY the count column DESC: every order the engine may give to ties
OrderByCountDesc(rows) ==
    {o \in Perms(rows) : \A i \in 1..(Len(o) - 1) : Last(o[i]).n >= Last(o[i + 1]).n}

\* count_cars_per_city: the result sets the query may return
count_cars_per_city(t) == OrderByCountDesc(GroupBy(t, <<"City">>))

\* LIMIT 3
Limit3(o) == SubSeq(o, 1, IF Len(o) < 3 THEN Len(o) ELSE 3)

\* top_3_most_popular_vehicles
top_3_most_popular_vehicles(t) ==
    {Limit3(o) : o \in OrderByCountDesc(GroupBy(t, <<"Make", "Model">>))}

\* a slip: the window is ordered by popularity ascending
FirstOfPartition_asc(rows) ==
    {o[1] : o \in {q \in Perms(rows) :
                      \A i \in 1..(Len(q) - 1) : Last(q[i]).n <= Last(q[i + 1]).n}}

\* ROW_NUMBER() OVER (PARTITION BY Postal_Code ORDER BY popularity DESC) = 1:
\* the rows of one partition that some numbering puts first
FirstOfPartition(rows) == {o[1] : o \in OrderByCountDesc(rows)}

\* most_popular_vehicle_by_postal_code: the result sets the query may return
most_popular_vehicle_by_postal_code(t) ==
    LET groups == GroupBy(t, <<"Postal_Code", "Make", "Model">>)
        codes == {g[1] : g \in groups}
        part(c) == {g \in groups : g[1] = c}
        picks == {f \in [codes -> groups] : \A c \in codes : f[c] \in FirstOfPartition(part(c))}
    IN  UNION {Perms({f[c] : c \in codes}) : f \in picks}

\* count_cars_by_model_year
count_cars_by_model_year(t) == OrderByCountDesc(GroupBy(t, <<"Model_Year">>))

\* str(n) of an int
RECURSIVE NatToStr(_)
NatToStr(n) == IF n < 10 THEN <<Digits[n + 1]>> ELSE NatToStr(n \div 10) \o <<Digits[(n % 10) + 1]>>

IntToStr(n) == IF n < 0 THEN <<"-">> \o NatToStr(0 - n) ELSE NatToStr(n)

\* f"{year}" of a group key of the DataFrame: a float64 column yields floats
FormatYear(n, dtype) == IF dtype = "float64" THEN IntToStr(n) \o <<".", "0">> ELSE IntToStr(n)

\* the dtypes fetchdf() may give the Model_Year column: with a NULL in it the
\* column is not a plain integer column, and this code does not fix which
YearDtypes(df) ==
    IF \E i \in DOMAIN df : df[i][1].t = "none" THEN {"Int32", "float64"} ELSE {"int32"}

\* df.groupby('Model_Year'): the keys, without the missing key (dropna)
GroupKeys(df) == {df[i][1].n : i \in {j \in DOMAIN df : df[j][1].t # "none"}}

\* year_df of one key: the rows of df with that key, in order
RECURSIVE YearRows(_, _)
YearRows(df, y) ==
    IF df = <<>> THEN <<>>
    ELSE IF Head(df)[1] = IntV(y) THEN <<Head(df)>> \o YearRows(Tail(df), y)
    ELSE YearRows(Tail(df), y)

YearDir(y, dtype) == <<"model_year=">> \o FormatYear(y, dtype)
YearFile(y, dtype) == <<"electric_cars_">> \o FormatYear(y, dtype) \o <<".parquet">>
RootDir == <<"output_dir">>

\* to_parquet(path): the file at path is created or replaced
WriteFiles(files, new) ==
    {f \in files : ~\E g \in new : g.dir = f.dir /\ g.name = f.name} \cup new

Paths(files) == {[dir |-> f.dir, name |-> f.name] : f \in files}

\* ElectricVehicleAnalytics.__init__: output_dir.mkdir(parents, exist_ok)
analytics_init ==
    /\ pc = "analytics_init"
    /\ out_dir' = TRUE
    /\ pc' = "rep_city"
    /\ UNCHANGED <<runs, fileVars, db_dir, conn_open, dbVars, loadVars, exc, calls, steps,
                   out_files, written, year_dtype, convVars>>

\* one query of run() and the write of its result as a single file
Report(results, name, query, next) ==
    /\ calls' = Append(calls, query)
    /\ \/ \E df \in results :
             LET new == {[dir |-> RootDir, name |-> name, content |-> df]}
             IN  /\ out_files' = WriteFiles(out_files, new)
                 /\ written' = written \cup Paths(new)
                 /\ pc' = next /\ UNCHANGED exc
       \/ Raise("DBError") /\ UNCHANGED <<out_files, written>>
    /\ UNCHANGED <<runs, fileVars, db_dir, conn_open, dbVars, loadVars, out_dir,
                   year_dtype, convVars>>

\* run(): count_cars_per_city and electric_cars_per_city.parquet
rep_city ==
    /\ pc = "rep_city"
    /\ steps' = Append(steps, "analytics_run")
    /\ Report(count_cars_per_city(table), <<"electric_cars_per_city.parquet">>, "Q city",
              "rep_top3")

\* run(): top_3_most_popular_vehicles and its file
rep_top3 ==
    /\ pc = "rep_top3"
    /\ Report(top_3_most_popular_vehicles(table),
              <<"top_3_most_popular_vehicles.parquet">>, "Q top3", "rep_postal")
    /\ UNCHANGED steps

\* run(): most_popular_vehicle_by_postal_code and its file
rep_postal ==
    /\ pc = "rep_postal"
    /\ Report(most_popular_vehicle_by_postal_code(table),
              <<"popular_vehicle_by_postal_code.parquet">>, "Q postal", "rep_year")
    /\ UNCHANGED steps

\* run(): count_cars_by_model_year and the loop over df.groupby('Model_Year')
rep_year ==
    /\ pc = "rep_year"
    /\ calls' = Append(calls, "Q year")
    /\ \/ \E df \in count_cars_by_model_year(table) : \E dtype \in YearDtypes(df) :
             LET new == {[dir |-> YearDir(y, dtype), name |-> YearFile(y, dtype),
                          content |-> YearRows(df, y)] : y \in GroupKeys(df)}
             IN  /\ out_files' = WriteFiles(out_files, new)
                 /\ written' = written \cup Paths(new)
                 /\ year_dtype' = dtype
                 /\ pc' = "close" /\ UNCHANGED exc
       \/ Raise("DBError") /\ UNCHANGED <<out_files, written, year_dtype>>
    /\ UNCHANGED <<runs, fileVars, db_dir, conn_open, dbVars, loadVars, steps, out_dir,
                   convVars>>

\* main(): db_connection.close()
main_close ==
    /\ pc = "close"
    /\ conn_open' = FALSE
    /\ pc' = "done"
    /\ UNCHANGED <<runs, fileVars, db_dir, dbVars, loadVars, exc, calls, steps, outVars,
                   convVars>>

\* the program is started again on the database and output directory it left
new_run ==
    /\ pc \in {"done", "failed"}
    /\ runs < MaxRuns
    /\ runs' = runs + 1
    /\ pc' = "main"
    /\ exc' = "none" /\ caught' = "none"
    /\ calls' = <<>> /\ steps' = <<>> /\ written' = {}
    /\ conn_open' = FALSE
    /\ in_txn' = FALSE /\ txn_rows' = <<>>     \* an open transaction dies with the process
    /\ reader_pos' = 0 /\ batch' = <<>>
    /\ csv_exists' \in BOOLEAN
    /\ UNCHANGED <<csv_lines, batch_size, db_dir, table_exists, table, table0, out_dir,
                   out_files, year_dtype, convVars>>

---------------------------------------------------------------------------
(* The driver against a persisted database *)

\* batch sizes the constructor accepts: it accepts every int
BatchSizes == {-1} \cup (0 .. (MaxLines + 1))

CsvFiles == SeqsUpTo(LineCodes, MaxLines)

Init ==
    /\ pc = "main" /\ runs = 1
    /\ csv_exists \in BOOLEAN
    /\ csv_lines \in CsvFiles
    /\ batch_size \in BatchSizes
    /\ db_dir = FALSE /\ conn_open = FALSE
    /\ table_exists = FALSE /\ table = <<>>
    /\ in_txn = FALSE /\ txn_rows = <<>>
    /\ table0 = <<>> /\ reader_pos = 0 /\ batch = <<>>
    /\ caught = "none" /\ exc = "none"
    /\ calls = <<>> /\ steps = <<>>
    /\ out_dir = FALSE /\ out_files = {} /\ written = {}
    /\ year_dtype = "int32"
    /\ conv_col = "VIN" /\ conv_val = None /\ conv_out = None /\ conv_done = FALSE

Next ==
    \/ main_connect
    \/ loader_init
    \/ create_table
    \/ load_begin
    \/ load_open
    \/ load_batch
    \/ load_exec
    \/ load_commit
    \/ load_rollback
    \/ validate_data_load
    \/ analytics_init
    \/ rep_city
    \/ rep_top3
    \/ rep_postal
    \/ rep_year
    \/ main_close
    \/ new_run

Spec == Init /\ [][Next]_vars

---------------------------------------------------------------------------
(* _convert_value on its own: every column, every short text *)

\* characters of the raw texts: digits, blank, signs, separators, a letter
Alphabet == {"0", "7", " ", "-", "_", ".", "x"}

RawValues == {None} \cup {Str(s) : s \in SeqsUpTo(Alphabet, MaxLen)}

InitConvert ==
    /\ conv_col \in DbColumns /\ conv_val \in RawValues
    /\ conv_out = None /\ conv_done = FALSE
    /\ pc = "idle" /\ runs = 1
    /\ csv_exists = FALSE /\ csv_lines = <<>> /\ batch_size = 1
    /\ db_dir = FALSE /\ conn_open = FALSE
    /\ table_exists = FALSE /\ table = <<>>
    /\ in_txn = FALSE /\ txn_rows = <<>>
    /\ table0 = <<>> /\ reader_pos = 0 /\ batch = <<>>
    /\ caught = "none" /\ exc = "none"
    /\ calls = <<>> /\ steps = <<>>
    /\ out_dir = FALSE /\ out_files = {} /\ written = {}
    /\ year_dtype = "int32"

\* one call of _convert_value(col, val)
call_convert_value ==
    /\ ~conv_done
    /\ conv_out' = convert_value(conv_col, conv_val)
    /\ conv_done' = TRUE
    /\ UNCHANGED <<pc, runs, fileVars, db_dir, conn_open, dbVars, loadVars, exc, calls,
                   steps, outVars, conv_col, conv_val>>

NextConvert == call_convert_value

SpecConvert == InitConvert /\ [][NextConvert]_vars

\* the text is an integer literal as int() reads it
Parseable(val) == val.t = "str" /\ PyIntOk(val.s)

\* the text is empty, or the field is absent from the line
BlankOrAbsent(val) == val.t = "none" \/ val.s = <<>>

\* C3 as stated: a numeric column stores null for a blank, absent or unparseable
\* text and the parsed integer otherwise; every other column stores the raw
\* value verbatim.
C3_Original ==
    conv_done =>
        IF conv_col \in converters
        THEN conv_out = (IF Parseable(conv_val) THEN IntV(PyInt(conv_val.s)) ELSE None)
        ELSE conv_out = conv_val

\* C3 amended: a numeric column stores null for a blank, absent or unparseable
\* text and the parsed integer otherwise (0 for "0"); every other column stores
\* null for an empty or absent field and the raw text verbatim otherwise.
C3_ConvertValue ==
    conv_done =>
        /\ conv_col \in converters =>
              /\ ~Parseable(conv_val) => conv_out = None
              /\ Parseable(conv_val) => conv_out.t = "int" /\ conv_out.n = PyInt(conv_val.s)
              /\ conv_val = Str(<<"0">>) => conv_out = IntV(0)
              /\ conv_val = Str(<<"-", "7">>) => conv_out = IntV(-7)
              /\ conv_val = Str(<<" ", "7", "0">>) => conv_out = IntV(70)
              /\ conv_val \in {Str(<<"7", ".", "0">>), Str(<<"x">>), Str(<<" ">>),
                               Str(<<"7", " ", "0">>), Str(<<"_", "7">>)} => conv_out = None
        /\ conv_col \notin converters =>
              conv_out = (IF BlankOrAbsent(conv_val) THEN None ELSE conv_val)

\* a text column was given an empty field and stored null; a numeric column was
\* given "0" and stored the integer 0
C3_Witness ==
    /\ conv_done
    /\ \/ conv_col = "Legislative_District" /\ conv_val = Str(<<>>) /\ conv_out = None
       \/ conv_col = "Base_MSRP" /\ conv_val = Str(<<"0">>) /\ conv_out = IntV(0)

---------------------------------------------------------------------------
(* Properties of the driver and the loader *)

\* exceptions raised by the database, the file system or the CSV reader
EnvFaults == {"DBError", "OSError", "CsvError"}

\* the file has a header and no empty line: each line after it is one record
ValidCsv == BlankLine \notin Range(csv_lines)

InLoad == pc \in {"load_open", "load_batch", "load_exec", "load_commit", "load_rollback"}

\* load_data has returned normally and nothing has run since
LoadReturned == pc = "validate"

\* load_data raised from inside its try block
LoadRaised == pc = "failed" /\ steps # <<>> /\ Last(steps) = "load_data" /\ caught # "none"

Count(r, t) == Cardinality({i \in DOMAIN t : t[i] = r})

\* C1 as stated, for batch sizes of at least one row: whenever load_data has
\* committed the rows of a valid CSV, the table holds as many rows as the CSV
\* has data rows, in every run against the persisted table.
C1_Original ==
    (LoadReturned /\ ValidCsv /\ batch_size >= 1) => Len(table) = Len(csv_lines)

\* C2 as stated: nothing of the file is committed while load_data runs; when a
\* step after BEGIN raises, ROLLBACK is the last call, the caught exception is
\* the one that propagates and the committed rows are those from before; when
\* load_data returns, every record of the file is committed after them.
C2_Original ==
    /\ InLoad => table = table0
    /\ LoadRaised =>
          /\ Last(calls) = "ROLLBACK" /\ exc = caught
          /\ table = table0 /\ ~in_txn /\ txn_rows = <<>>
    /\ LoadReturned => table = table0 \o FileRows(csv_lines)

C5_Original ==
    (~csv_exists /\ pc = "failed" /\ exc = "FileNotFoundError") =>
        /\ ~conn_open
        /\ calls = <<>> /\ steps = <<>> /\ ~in_txn

\* C5 amended: when the CSV path names no file the run fails with
\* FileNotFoundError in the loader's constructor, after main has created the
\* db directory and opened the database connection, and before any statement:
\* no statement is executed, no step of the loader is entered, no table is
\* created and no transaction is begun in that run.
C5_FailFast ==
    ~csv_exists =>
        /\ pc \in {"main", "construct", "failed"}
        /\ calls = <<>> /\ steps = <<>> /\ ~in_txn /\ txn_rows = <<>>
        /\ runs = 1 => ~table_exists /\ table = <<>>
        /\ (pc = "failed" /\ exc = "FileNotFoundError") => conn_open /\ db_dir
        /\ (pc = "failed" /\ conn_open) => exc = "FileNotFoundError"

\* the run has failed with FileNotFoundError with the connection already open
C5_Witness ==
    ~csv_exists /\ pc = "failed" /\ exc = "FileNotFoundError" /\ conn_open /\ calls = <<>>

\* C2 for the batch sizes of at least one row: the whole of C2 holds there
C2_PositiveBatch == batch_size >= 1 => C2_Original

\* the loader's run has ended, by a return of validate_data_load or by an
\* exception of load_data or validate_data_load
LoaderEnded ==
    \/ pc = "analytics_init"
    \/ pc = "failed" /\ steps # <<>> /\ Last(steps) \in {"load_data", "validate_data_load"}

\* the outcome of load_data and validate_data_load when rows are inserted one
\* per batch
RowAtATimeTable == table0 \o FileRows(csv_lines)
RowAtATimeExc ==
    IF Len(RowAtATimeTable) # Len(csv_lines) THEN "AssertionError" ELSE "none"

\* C6 as stated: whatever batch_size the loader was constructed with, a run of
\* load_data and validate_data_load that the environment does not fail ends
\* as it does with any other batch size (here: one row per batch), with the same
\* exception or normal return and the same committed rows in CSV order.
C6_Original ==
    (LoaderEnded /\ exc \notin EnvFaults) =>
        /\ table = RowAtATimeTable
        /\ exc = RowAtATimeExc

\* C6 for the batch sizes of at least one row: outcome and table are the same
C6_PositiveBatch == batch_size >= 1 => C6_Original

\* every row of table t occurs in it no more often than in the file
AtMostOnce(t, lines) == \A r \in Range(t) : Count(r, t) <= Count(r, FileRows(lines))

\* C7 as stated: every step keeps the committed rows it found, unchanged and in
\* place; create_table, validate_data_load and the report queries leave the
\* table exactly as it was; and the rows of the file are in the table at most
\* once.
C7_Original ==
    [][/\ IsPrefix(table, table')
       /\ pc \in {"create_table", "validate", "analytics_init", "rep_city", "rep_top3",
                  "rep_postal", "rep_year"} => table' = table
       /\ AtMostOnce(table', csv_lines')]_vars

DriverOrder == <<"create_table", "load_data", "validate_data_load", "analytics_run">>

\* C10: the steps of a run are entered in the order create_table, load_data,
\* validate_data_load, reporter run, each at most once; an exception that
\* leaves a step ends the run: no step is entered, no database call issued and
\* no file written after it, and when a loader step raised the run has written
\* no report file.
C10_Order ==
    [][/\ IsPrefix(steps', DriverOrder)
       /\ exc' # "none" => pc' = "failed"
       /\ exc # "none" =>
             \/ steps' = steps /\ calls' = calls /\ written' = written /\ table' = table
             \/ runs' = runs + 1 /\ steps' = <<>>
       /\ (exc' # "none" /\ "analytics_run" \notin Range(steps')) => written' = {}]_vars

\* validate_data_load raised in a second run, after the first run had written
\* its reports: this run wrote nothing
C10_Witness ==
    /\ runs = 2 /\ pc = "failed" /\ exc = "AssertionError"
    /\ steps = <<"create_table", "load_data", "validate_data_load">>
    /\ written = {} /\ out_files # {}

---------------------------------------------------------------------------
(* The reporter on its own: every small table *)

\* the rows a table handed to the reporter is made of: the stored sample rows
\* and one more vehicle in a second postal code
TableRows ==
    {Stored(ConvertRow(SampleRows[k])) : k \in DOMAIN SampleRows}
    \cup {Stored(ConvertRow(RawRow(Str(<<"E">>), Str(<<"9", "9">>), Str(<<"2", "0">>),
                                   Str(<<"V">>), Str(<<"S">>), Str(<<"0">>), Str(<<>>),
                                   Str(<<"4", "1">>))))}

InitAnalytics ==
    /\ table \in SeqsUpTo(TableRows, MaxTable)
    /\ table_exists = TRUE /\ conn_open = TRUE /\ db_dir = TRUE
    /\ pc = "analytics_init" /\ runs = 1
    /\ csv_exists = TRUE /\ csv_lines = <<>> /\ batch_size = 1
    /\ in_txn = FALSE /\ txn_rows = <<>>
    /\ table0 = <<>> /\ reader_pos = 0 /\ batch = <<>>
    /\ caught = "none" /\ exc = "none"
    /\ calls = <<>> /\ steps = <<>>
    /\ out_dir = FALSE /\ out_files = {} /\ written = {}
    /\ year_dtype = "int32"
    /\ conv_col = "VIN" /\ conv_val = None /\ conv_out = None /\ conv_done = FALSE

NextAnalytics ==
    \/ analytics_init
    \/ rep_city
    \/ rep_top3
    \/ rep_postal
    \/ rep_year

SpecAnalytics == InitAnalytics /\ [][NextAnalytics]_vars

\* ElectricVehicleAnalytics.run() has completed
RunCompleted == pc = "close"

YearValues == {table[i]["Model_Year"] : i \in DOMAIN table}
YearFiles == {f \in out_files : f.dir # RootDir}

\* C8 as stated: after run() the output directory holds exactly one
\* model_year=<year> subdirectory per distinct Model_Year value of the table,
\* null included, and no other; each holds exactly one file electric_cars_<year>
\* whose rows all have that year.  <year> is the year as the DataFrame renders it.
C8_Original ==
    RunCompleted =>
        /\ Cardinality({f.dir : f \in YearFiles}) = Cardinality(YearValues)
        /\ \A f \in YearFiles :
              \E y \in YearValues :
                  /\ y.t = "int"
                  /\ f.dir = <<"model_year=">> \o FormatYear(y.n, year_dtype)
                  /\ f.name = <<"electric_cars_">> \o FormatYear(y.n, year_dtype)
                                  \o <<".parquet">>
                  /\ \A k \in DOMAIN f.content : f.content[k][1] = y
        /\ \A f, g \in YearFiles : f.dir = g.dir => f = g

PostalFile ==
    CHOOSE f \in out_files : f.name = <<"popular_vehicle_by_postal_code.parquet">>

\* number of rows of the table with this postal code, make and model
PairCount(code, make, model) ==
    Cardinality({i \in DOMAIN table :
                    /\ table[i]["Postal_Code"] = code
                    /\ table[i]["Make"] = make
                    /\ table[i]["Model"] = model})

\* C9: the result of most_popular_vehicle_by_postal_code has exactly one row
\* per distinct Postal_Code of the table and no other row; the popularity of a
\* row is the number of table rows with its postal code, make and model, and no
\* (make, model) pair of that postal code occurs more often.
C9_MostPopular ==
    pc \in {"rep_year", "close"} =>
        LET rows == PostalFile.content
        IN  /\ \A i \in DOMAIN table :
                  Cardinality({k \in DOMAIN rows : rows[k][1] = table[i]["Postal_Code"]}) = 1
            /\ \A k \in DOMAIN rows :
                  /\ \E i \in DOMAIN table : table[i]["Postal_Code"] = rows[k][1]
                  /\ rows[k][4] = IntV(PairCount(rows[k][1], rows[k][2], rows[k][3]))
                  /\ \A i \in DOMAIN table :
                        table[i]["Postal_Code"] = rows[k][1] =>
                            rows[k][4].n >= PairCount(rows[k][1], table[i]["Make"],
                                                      table[i]["Model"])

\* the query has run on a table where one postal code holds two (make, model)
\* pairs of different counts, and its row is the pair that occurs twice
C9_Witness ==
    /\ pc = "rep_year"
    /\ \E k \in DOMAIN PostalFile.content :
          /\ PostalFile.content[k][4] = IntV(2)
          /\ \E i \in DOMAIN table :
                /\ table[i]["Postal_Code"] = PostalFile.content[k][1]
                /\ table[i]["Make"] # PostalFile.content[k][2]

---------------------------------------------------------------------------
(* The transaction protocol of load_data *)

\* load_data is running, or was the last step entered in this run
InLoadData == steps # <<>> /\ Last(steps) = "load_data"

\* the database calls of this run after create_table's statement
LoadLog == Tail(calls)

\* the number of executemany calls in a log
NumInserts(log) == Cardinality({i \in DOMAIN log : log[i] = "INSERT"})

\* BEGIN first and once, then only inserts, then at most a COMMIT and at most a
\* ROLLBACK after it: no insert follows a COMMIT or a ROLLBACK
ProtocolShape(log) ==
    /\ log # <<>> /\ log[1] = "BEGIN TRANSACTION"
    /\ \A i \in DOMAIN log : log[i] = "BEGIN TRANSACTION" => i = 1
    /\ \A i \in DOMAIN log :
          log[i] \in {"BEGIN TRANSACTION", "INSERT", "COMMIT", "ROLLBACK"}
    /\ \A i, j \in DOMAIN log :
          (i < j /\ log[i] \in {"COMMIT", "ROLLBACK"}) => log[j] = "ROLLBACK" /\ log[i] = "COMMIT"

\* the batch about to be inserted is not empty, holds at most batch_size rows,
\* and holds the records of the file that follow those already inserted
BatchInOrder ==
    /\ batch # <<>> /\ Len(batch) <= batch_size
    /\ Len(txn_rows) + Len(batch) <= Len(FileRows(csv_lines))
    /\ InsertedRows(batch)
          = SubSeq(FileRows(csv_lines), Len(txn_rows) + 1, Len(txn_rows) + Len(batch))

\* what C11 says of the calls before load_data ends
ProtocolRunning ==
    /\ ProtocolShape(LoadLog)
    /\ pc = "load_exec" => BatchInOrder
    /\ in_txn => IsPrefix(txn_rows, FileRows(csv_lines))
    /\ pc \in {"load_open", "load_batch", "load_exec", "load_commit"} =>
          in_txn /\ "COMMIT" \notin Range(LoadLog) /\ "ROLLBACK" \notin Range(LoadLog)
    /\ "COMMIT" \in Range(LoadLog) =>
          /\ batch = <<>>
          /\ batch_size >= 1 => reader_pos = Len(Records(csv_lines))
    /\ pc = "validate" => Last(LoadLog) = "COMMIT" /\ ~in_txn /\ exc = "none"

C12_Original == pc = "analytics_init" => table # <<>>

=============================================================================
